---- MODULE Spec2Model ----
(***************************************************************************)
(* Room lifecycle and session coordination of the draughts server:         *)
(*   app/services/room_manager.py   RoomManager (rooms, player_to_room)     *)
(*   app/websockets/game_handler.py socket.io event handlers, sid_map      *)
(*   app/main.py                    cleanup_task (the periodic sweep)       *)
(* Handlers are coroutines on one event loop: a handler runs atomically up  *)
(* to an `await sio.emit(...)`, where other handlers may run before it      *)
(* resumes.  Handlers that mutate state after such an await are split in    *)
(* two actions joined by a continuation kept in `pending`.                  *)
(***************************************************************************)
EXTENDS Integers, Sequences, FiniteSets, TLC

\* ---------------------------------------------------------------- values
None   == "None"
NoTime == -1

LIGHT == "light"
DARK  == "dark"
PieceColor == {DARK, LIGHT}

WAITING  == "waiting"
PLAYING  == "playing"
FINISHED == "finished"
GameStatus == {WAITING, PLAYING, FINISHED}

\* The room codes _generate_room_id draws from (32^6 in the source)
RoomIds == {"r1", "r2"}
\* The values requests carry: connection ids, player ids, names, boards
Sids    == {"s1"}
Players == {"p1", "p2", "p3"}
Names   == {"n1", "n2"}
Boards  == {"b1", "b2"}

INACTIVE_ROOM_TIMEOUT_SECONDS == 7200
disconnect_timeout == 60

\* The clock advances at most MaxTicks times.
MaxTicks == 1
\* At most this many handlers are suspended at an await at the same time.
MaxPending == 1

VARIABLES
    settings,        \* app.core.config.settings, read once at start-up
    watch,           \* the handlers whose outputs are recorded (never changes)
    rooms,           \* RoomManager.rooms: room id -> GameRoom (live rooms only)
    room_keys,       \* insertion order of the keys of RoomManager.rooms
    player_to_room,  \* RoomManager.player_to_room: player id -> room id
    sid_map,         \* game_handler.sid_map: sid -> <<room id, player id>>
    latest,          \* player id -> the connection it last created or joined on
    pending,         \* handlers suspended at an await, with their locals
    janitor,         \* state of the cleanup_task coroutine
    now,             \* datetime.utcnow()
    ticks,           \* number of clock advances so far
    request,         \* the request the last step served
    emitted,         \* events broadcast by the last step, in order
    reply            \* value returned to the caller by the last step

vars == <<settings, watch, rooms, room_keys, player_to_room, sid_map, latest,
          pending, janitor, now, ticks, request, emitted, reply>>

\* ------------------------------------------------------------ sequences
RECURSIVE SeqFilterOut(_, _)
\* [p for p in players if p.id != player_id]
SeqFilterOut(players, player_id) ==
    IF players = <<>> THEN <<>>
    ELSE IF Head(players).id = player_id
         THEN SeqFilterOut(Tail(players), player_id)
         ELSE <<Head(players)>> \o SeqFilterOut(Tail(players), player_id)

RECURSIVE SeqRemove(_, _)
\* the keys of a dict after dict.pop(key)
SeqRemove(keys, key) ==
    IF keys = <<>> THEN <<>>
    ELSE IF Head(keys) = key THEN SeqRemove(Tail(keys), key)
         ELSE <<Head(keys)>> \o SeqRemove(Tail(keys), key)

\* dict.pop(key, None) on a function
DictPop(d, key) == [k \in (DOMAIN d) \ {key} |-> d[k]]

\* d[key] = value on a function
DictSet(d, key, value) ==
    [k \in (DOMAIN d) \cup {key} |-> IF k = key THEN value ELSE d[k]]

\* next((p for p in room.players if p.id == player_id), None) as an index, 0 for None
FindPlayer(players, player_id) ==
    IF \E i \in 1..Len(players) : players[i].id = player_id
    THEN CHOOSE i \in 1..Len(players) :
            /\ players[i].id = player_id
            /\ \A j \in 1..(i - 1) : players[j].id # player_id
    ELSE 0

\* ---------------------------------------------------------------- models
\* Player(id=..., name=..., color=...) with the defaults of the model
Player(id, name, color) ==
    [id |-> id, name |-> name, color |-> color, isReady |-> FALSE,
     isConnected |-> TRUE, disconnectedAt |-> NoTime]

\* GameRoom(id=room_id, players=[player], variant=variant) with the defaults
GameRoom(player, t) ==
    [players |-> <<player>>, board |-> None, currentTurn |-> LIGHT,
     status |-> WAITING, lastActivityAt |-> t, winner |-> None]

\* The state of one RoomManager
Store(r, k, p) == [rooms |-> r, keys |-> k, player_to_room |-> p]

Opposite(color) == IF color = DARK THEN LIGHT ELSE DARK

\* ------------------------------------------------------------ RoomManager
\* Every method is a function from the store before the call (and the clock
\* `t` read by datetime.utcnow()) to the store after it.

\* room ids drawn without the test `room_id not in self.rooms`
_generate_room_id_any(st) == RoomIds

\* the room ids _generate_room_id can return: any code naming no live room
_generate_room_id(st) == RoomIds \ DOMAIN st.rooms

\* create_room raises ValueError("Maximum room limit reached")
create_room_full(st) == Cardinality(DOMAIN st.rooms) >= settings.MAX_ROOMS

create_room(st, room_id, player_id, player_name, t) ==
    Store(DictSet(st.rooms, room_id, GameRoom(Player(player_id, player_name, LIGHT), t)),
          IF room_id \in DOMAIN st.rooms THEN st.keys ELSE Append(st.keys, room_id),
          DictSet(st.player_to_room, player_id, room_id))

\* join_room's checks without the limit of two seats
join_room_error_unlimited(st, room_id, player_id) ==
    IF room_id \notin DOMAIN st.rooms THEN "Room not found"
    ELSE LET room == st.rooms[room_id] IN
         IF FindPlayer(room.players, player_id) # 0 THEN "ok"
         ELSE IF room.status = FINISHED THEN "Game has ended"
         ELSE IF room.status # WAITING THEN "Game already started"
         ELSE "ok"

\* join_room's checks with the limit of two seats tested before the status
join_room_error_full_first(st, room_id, player_id) ==
    IF room_id \notin DOMAIN st.rooms THEN "Room not found"
    ELSE LET room == st.rooms[room_id] IN
         IF FindPlayer(room.players, player_id) # 0 THEN "ok"
         ELSE IF Len(room.players) >= 2 THEN "Room is full"
         ELSE IF room.status = FINISHED THEN "Game has ended"
         ELSE IF room.status # WAITING THEN "Game already started"
         ELSE "ok"

\* the message of the ValueError join_room raises, "ok" when it raises none
join_room_error(st, room_id, player_id) ==
    IF room_id \notin DOMAIN st.rooms THEN "Room not found"
    ELSE LET room == st.rooms[room_id] IN
         IF FindPlayer(room.players, player_id) # 0 THEN "ok"
         ELSE IF room.status = FINISHED THEN "Game has ended"
         ELSE IF room.status # WAITING THEN "Game already started"
         ELSE IF Len(room.players) >= 2 THEN "Room is full"
         ELSE "ok"

\* join_room whose reconnection keeps the seat's old name
join_room_keeps_name(st, room_id, player_id, player_name, t) ==
    LET room == st.rooms[room_id]
        i    == FindPlayer(room.players, player_id)
    IN  IF i # 0
        THEN [st EXCEPT !.rooms[room_id] =
                 [room EXCEPT !.players[i].isConnected = TRUE,
                              !.players[i].disconnectedAt = NoTime,
                              !.lastActivityAt = t]]
        ELSE [st EXCEPT !.rooms[room_id] =
                 [room EXCEPT !.players = Append(room.players,
                                                 Player(player_id, player_name, DARK)),
                              !.lastActivityAt = t],
                        !.player_to_room = DictSet(st.player_to_room, player_id, room_id)]

\* join_room when it raises nothing
join_room(st, room_id, player_id, player_name, t) ==
    LET room == st.rooms[room_id]
        i    == FindPlayer(room.players, player_id)
    IN  IF i # 0
        THEN [st EXCEPT !.rooms[room_id] =
                 [room EXCEPT !.players[i].isConnected = TRUE,
                              !.players[i].disconnectedAt = NoTime,
                              !.players[i].name = player_name,
                              !.lastActivityAt = t]]
        ELSE [st EXCEPT !.rooms[room_id] =
                 [room EXCEPT !.players = Append(room.players,
                                                 Player(player_id, player_name, DARK)),
                              !.lastActivityAt = t],
                        !.player_to_room = DictSet(st.player_to_room, player_id, room_id)]

get_room(st, room_id, t) ==
    IF room_id \in DOMAIN st.rooms
    THEN [st EXCEPT !.rooms[room_id].lastActivityAt = t]
    ELSE st

\* the value set_player_ready returns
set_player_ready_ok(st, room_id, player_id) ==
    /\ room_id \in DOMAIN st.rooms
    /\ FindPlayer(st.rooms[room_id].players, player_id) # 0

set_player_ready(st, room_id, player_id, ready, t) ==
    IF set_player_ready_ok(st, room_id, player_id)
    THEN LET i == FindPlayer(st.rooms[room_id].players, player_id)
         IN  [st EXCEPT !.rooms[room_id].players[i].isReady = ready,
                        !.rooms[room_id].lastActivityAt = t]
    ELSE st

can_start_game(st, room_id) ==
    /\ room_id \in DOMAIN st.rooms
    /\ Len(st.rooms[room_id].players) = 2
    /\ \A i \in 1..Len(st.rooms[room_id].players) : st.rooms[room_id].players[i].isReady

start_game(st, room_id, t) ==
    IF can_start_game(st, room_id)
    THEN [st EXCEPT !.rooms[room_id].status = PLAYING,
                    !.rooms[room_id].lastActivityAt = t]
    ELSE st

\* update_game_state without the test of the room's status
update_game_state_any_status(st, room_id, board, current_turn, t) ==
    IF room_id \in DOMAIN st.rooms
    THEN [st EXCEPT !.rooms[room_id].board = board,
                    !.rooms[room_id].currentTurn = current_turn,
                    !.rooms[room_id].lastActivityAt = t]
    ELSE st

update_game_state(st, room_id, board, current_turn, t) ==
    IF room_id \in DOMAIN st.rooms /\ st.rooms[room_id].status = PLAYING
    THEN [st EXCEPT !.rooms[room_id].board = board,
                    !.rooms[room_id].currentTurn = current_turn,
                    !.rooms[room_id].lastActivityAt = t]
    ELSE st

end_game(st, room_id, winner, t) ==
    IF room_id \in DOMAIN st.rooms
    THEN [st EXCEPT !.rooms[room_id].status = FINISHED,
                    !.rooms[room_id].winner = winner,
                    !.rooms[room_id].lastActivityAt = t]
    ELSE st

remove_player(st, room_id, player_id, t) ==
    IF room_id \notin DOMAIN st.rooms THEN st
    ELSE LET left == SeqFilterOut(st.rooms[room_id].players, player_id)
             p2r  == DictPop(st.player_to_room, player_id)
         IN  IF Len(left) = 0
             THEN Store(DictPop(st.rooms, room_id), SeqRemove(st.keys, room_id), p2r)
             ELSE Store([st.rooms EXCEPT ![room_id].players = left,
                                         ![room_id].lastActivityAt = t],
                        st.keys, p2r)

\* remove_player returns the room (TRUE) or None (FALSE)
remove_player_room(st, room_id, player_id) ==
    /\ room_id \in DOMAIN st.rooms
    /\ Len(SeqFilterOut(st.rooms[room_id].players, player_id)) # 0

handle_disconnect(st, player_id, t) ==
    IF player_id \notin DOMAIN st.player_to_room THEN st
    ELSE LET room_id == st.player_to_room[player_id] IN
         IF room_id \notin DOMAIN st.rooms THEN st
         ELSE LET i == FindPlayer(st.rooms[room_id].players, player_id) IN
              IF i = 0 THEN st
              ELSE [st EXCEPT !.rooms[room_id].players[i].isConnected = FALSE,
                              !.rooms[room_id].players[i].disconnectedAt = t,
                              !.rooms[room_id].lastActivityAt = t]

\* ---- cleanup_inactive_rooms
\* p is in disconnected_players
StalePlayer(p, t) ==
    /\ ~p.isConnected
    /\ p.disconnectedAt # NoTime
    /\ t - p.disconnectedAt > disconnect_timeout

RECURSIVE StaleIds(_, _)
StaleIds(players, t) ==
    IF players = <<>> THEN <<>>
    ELSE (IF StalePlayer(Head(players), t) THEN <<Head(players).id>> ELSE <<>>)
         \o StaleIds(Tail(players), t)

RECURSIVE RemoveAll(_, _, _, _)
\* for player in disconnected_players: self.remove_player(room_id, player.id)
RemoveAll(st, room_id, ids, t) ==
    IF ids = <<>> THEN st
    ELSE RemoveAll(remove_player(st, room_id, Head(ids), t), room_id, Tail(ids), t)

RECURSIVE cleanup_scan(_, _, _, _)
\* The first loop, over self.rooms.items(): `todo` are the keys not yet visited.
\* remove_player may pop the room from the dict being iterated; the iterator
\* then raises RuntimeError (dictionary changed size during iteration) when the
\* loop asks for its next item, also after the last key.
cleanup_scan(st, todo, rooms_to_delete, t) ==
    IF todo = <<>>
    THEN [st |-> st, rooms_to_delete |-> rooms_to_delete, raised |-> FALSE]
    ELSE LET room_id == Head(todo)
             room    == st.rooms[room_id]
         IN  IF t - room.lastActivityAt > INACTIVE_ROOM_TIMEOUT_SECONDS
             THEN cleanup_scan(st, Tail(todo), Append(rooms_to_delete, room_id), t)
             ELSE LET st2 == RemoveAll(st, room_id, StaleIds(room.players, t), t)
                  IN  IF room_id \notin DOMAIN st2.rooms
                      THEN [st |-> st2,
                            rooms_to_delete |-> Append(rooms_to_delete, room_id),
                            raised |-> TRUE]
                      ELSE cleanup_scan(st2, Tail(todo), rooms_to_delete, t)

RECURSIVE PopPlayers(_, _)
\* for player in room.players: self.player_to_room.pop(player.id, None)
PopPlayers(p2r, players) ==
    IF players = <<>> THEN p2r
    ELSE PopPlayers(DictPop(p2r, Head(players).id), Tail(players))

RECURSIVE cleanup_delete(_, _)
\* The second loop, over the rooms marked for deletion
cleanup_delete(st, rooms_to_delete) ==
    IF rooms_to_delete = <<>> THEN st
    ELSE LET room_id == Head(rooms_to_delete) IN
         cleanup_delete(
             IF room_id \in DOMAIN st.rooms
             THEN Store(DictPop(st.rooms, room_id), SeqRemove(st.keys, room_id),
                        PopPlayers(st.player_to_room, st.rooms[room_id].players))
             ELSE st,
             Tail(rooms_to_delete))

\* One call: the store it leaves, whether it raised, and the value it returns
cleanup_inactive_rooms(st, t) ==
    LET scan == cleanup_scan(st, st.keys, <<>>, t)
    IN  IF scan.raised
        THEN [st |-> scan.st, raised |-> TRUE, returned |-> None]
        ELSE [st |-> cleanup_delete(scan.st, scan.rooms_to_delete), raised |-> FALSE,
              returned |-> Len(scan.rooms_to_delete)]

\* --------------------------------------------------------- game_handler
\* The store the handlers share (room_manager), as the methods take it
St == Store(rooms, room_keys, player_to_room)

\* The handler's calls on room_manager left the store as st
Commit(st) ==
    /\ rooms' = st.rooms
    /\ room_keys' = st.keys
    /\ player_to_room' = st.player_to_room

\* sio.emit(name, data, room=room_id): data keeps the player id, the winner and
\* the reason of the event's data
Event(name, room_id, data) == [name |-> name, room |-> room_id, data |-> data]

\* The locals a suspended handler resumes with
Continuation(op, sid, room_id, player_id) ==
    [op |-> op, sid |-> sid, room |-> room_id, player |-> player_id]

\* What a step of handler op served and put out is recorded for the handlers in
\* watch: the handler with the room and the player its request names
NoRequest == [op |-> None, room |-> None, player |-> None]

Ask(op, room_id, player_id) ==
    request' = IF op \in watch
               THEN [op |-> op, room |-> room_id, player |-> player_id]
               ELSE NoRequest

\* the events the step broadcast, in order
Emit(op, evs) == emitted' = IF op \in watch THEN evs ELSE << >>

\* and the value it returned to the caller (None: nothing returned in this step)
Reply(op, value) == reply' = IF op \in watch THEN value ELSE None

\* The player's request arrived on connection sid and bound it (sid_map[sid] =
\* ...): recorded for the players whose disconnect is in watch
Binds(sid, player_id) ==
    latest' = IF "disconnect" \in watch THEN DictSet(latest, player_id, sid) ELSE latest

\* A handler may suspend at an await: at most MaxPending handlers are suspended
CanSuspend(c) == c \notin pending /\ Cardinality(pending) < MaxPending

\* The connection sid is closed: its disconnect handler is suspended
Closing(sid) == \E c \in pending : c.op = "disconnect" /\ c.sid = sid

\* The process after start-up, configured with MAX_ROOMS = max_rooms
InitWith(max_rooms, watched) ==
    /\ settings = [MAX_ROOMS |-> max_rooms]
    /\ watch = watched
    /\ rooms = << >>
    /\ room_keys = << >>
    /\ player_to_room = << >>
    /\ sid_map = << >>
    /\ latest = << >>
    /\ pending = {}
    /\ janitor = "running"
    /\ now = 0
    /\ ticks = 0
    /\ request = NoRequest
    /\ emitted = << >>
    /\ reply = None

\* async def createRoom(sid, data)
createRoom(sid, playerId, playerName, code) ==
    /\ Ask("createRoom", None, playerId)
    /\ ~Closing(sid)
    /\ IF create_room_full(St)
       THEN /\ Reply("createRoom", "Maximum room limit reached")
            /\ UNCHANGED <<rooms, room_keys, player_to_room, sid_map, latest>>
       ELSE /\ code \in _generate_room_id(St)
            /\ Commit(create_room(St, code, playerId, playerName, now))
            /\ sid_map' = DictSet(sid_map, sid, <<code, playerId>>)
            /\ Binds(sid, playerId)
            /\ Reply("createRoom", "success")
    /\ Emit("createRoom", << >>)
    /\ UNCHANGED <<settings, watch, pending, janitor, now, ticks>>

\* event_name in joinRoom, computed on the room join_room returned
event_name(room, playerId) ==
    IF \E i \in 1..Len(room.players) :
          room.players[i].id = playerId /\ room.players[i].isConnected
    THEN "playerReconnected"
    ELSE "playerJoined"

\* async def joinRoom(sid, data)
joinRoom(sid, roomId, playerId, playerName) ==
    /\ Ask("joinRoom", roomId, playerId)
    /\ ~Closing(sid)
    /\ LET err == join_room_error(St, roomId, playerId) IN
       IF err # "ok"
       THEN /\ Reply("joinRoom", err)
            /\ Emit("joinRoom", << >>)
            /\ UNCHANGED <<rooms, room_keys, player_to_room, sid_map, latest>>
       ELSE LET st == join_room(St, roomId, playerId, playerName, now) IN
            /\ Commit(st)
            /\ sid_map' = DictSet(sid_map, sid, <<roomId, playerId>>)
            /\ Binds(sid, playerId)
            /\ Emit("joinRoom", <<Event(event_name(st.rooms[roomId], playerId), roomId,
                                        <<playerId>>)>>)
            /\ Reply("joinRoom", "success")
    /\ UNCHANGED <<settings, watch, pending, janitor, now, ticks>>

\* playerReady up to the await of the playerReadyUpdate emit
playerReadyFirst(st, roomId, playerId, ready) ==
    get_room(set_player_ready(st, roomId, playerId, ready, now), roomId, now)

\* playerReady from `if room_manager.can_start_game(...)` to its return: the
\* store it leaves and the events it broadcasts
playerReadyRest(st, roomId) ==
    IF can_start_game(st, roomId)
    THEN [st |-> get_room(start_game(st, roomId, now), roomId, now),
          emitted |-> <<Event("gameStart", roomId, << >>)>>]
    ELSE [st |-> st, emitted |-> << >>]

\* async def playerReady(sid, data), its awaits completing without a switch of task
playerReady(sid, roomId, playerId, ready) ==
    /\ Ask("playerReady", roomId, playerId)
    /\ ~Closing(sid)
    /\ IF ~set_player_ready_ok(St, roomId, playerId)
       THEN /\ Reply("playerReady", "Failed to set ready status")
            /\ Emit("playerReady", << >>)
            /\ UNCHANGED <<rooms, room_keys, player_to_room>>
       ELSE LET rest == playerReadyRest(playerReadyFirst(St, roomId, playerId, ready),
                                        roomId)
            IN  /\ Commit(rest.st)
                /\ Emit("playerReady",
                        <<Event("playerReadyUpdate", roomId, << >>)>> \o rest.emitted)
                /\ Reply("playerReady", "success")
    /\ UNCHANGED <<settings, watch, latest, sid_map, pending, janitor, now, ticks>>

\* async def playerReady(sid, data), suspended at the await of the playerReadyUpdate emit
playerReadySuspend(sid, roomId, playerId, ready) ==
    /\ Ask("playerReady", roomId, playerId)
    /\ ~Closing(sid)
    /\ set_player_ready_ok(St, roomId, playerId)
    /\ LET c == Continuation("playerReady", None, roomId, None) IN
       /\ CanSuspend(c)
       /\ pending' = pending \cup {c}
    /\ Commit(playerReadyFirst(St, roomId, playerId, ready))
    /\ Emit("playerReady", <<Event("playerReadyUpdate", roomId, << >>)>>)
    /\ Reply("playerReady", None)
    /\ UNCHANGED <<settings, watch, latest, sid_map, janitor, now, ticks>>

\* playerReady resumed after the playerReadyUpdate emit
playerReadyResume(c) ==
    /\ Ask("playerReady", c.room, c.player)
    /\ c \in pending /\ c.op = "playerReady"
    /\ LET rest == playerReadyRest(St, c.room) IN
       /\ Commit(rest.st)
       /\ Emit("playerReady", rest.emitted)
    /\ pending' = pending \ {c}
    /\ Reply("playerReady", "success")
    /\ UNCHANGED <<settings, watch, latest, sid_map, janitor, now, ticks>>

\* the turn test without the comparison of colors
not_your_turn_unseated_only(room, playerId) ==
    FindPlayer(room.players, playerId) = 0

\* `not player or player.color != room.currentTurn` in makeMove
not_your_turn(room, playerId) ==
    LET i == FindPlayer(room.players, playerId)
    IN  i = 0 \/ room.players[i].color # room.currentTurn

\* async def makeMove(sid, data)
makeMove(sid, roomId, playerId, newBoard, nextTurn) ==
    /\ Ask("makeMove", roomId, playerId)
    /\ ~Closing(sid)
    /\ IF roomId \notin DOMAIN rooms
       THEN /\ Reply("makeMove", "Room not found")
            /\ Emit("makeMove", << >>)
            /\ UNCHANGED <<rooms, room_keys, player_to_room>>
       ELSE LET st == get_room(St, roomId, now) IN
            IF not_your_turn(st.rooms[roomId], playerId)
            THEN /\ Commit(st)
                 /\ Reply("makeMove", "Not your turn")
                 /\ Emit("makeMove", << >>)
            ELSE /\ Commit(update_game_state(st, roomId, newBoard, nextTurn, now))
                 /\ Emit("makeMove", <<Event("moveMade", roomId, <<playerId>>)>>)
                 /\ Reply("makeMove", "success")
    /\ UNCHANGED <<settings, watch, latest, sid_map, pending, janitor, now, ticks>>

\* async def gameOver(sid, data)
gameOver(sid, roomId, winner, reason) ==
    /\ Ask("gameOver", roomId, None)
    /\ ~Closing(sid)
    /\ Commit(end_game(St, roomId, winner, now))
    /\ Emit("gameOver", <<Event("gameEnded", roomId, <<winner, reason>>)>>)
    /\ Reply("gameOver", "success")
    /\ UNCHANGED <<settings, watch, latest, sid_map, pending, janitor, now, ticks>>

\* `room and room.status == PLAYING` and `if player:` in leaveRoom and disconnect
Forfeits(st, room_id, player_id) ==
    /\ room_id \in DOMAIN st.rooms
    /\ st.rooms[room_id].status = PLAYING
    /\ FindPlayer(st.rooms[room_id].players, player_id) # 0

\* winner_color in leaveRoom and disconnect
winner_color(st, room_id, player_id) ==
    LET room == st.rooms[room_id]
    IN  Opposite(room.players[FindPlayer(room.players, player_id)].color)

\* leaveRoom and disconnect up to the await of the gameEnded emit, when
\* Forfeits holds
forfeit(st, room_id, player_id) ==
    end_game(st, room_id, winner_color(st, room_id, player_id), now)

\* the gameEnded event of leaveRoom and disconnect
forfeitEvent(st, room_id, player_id) ==
    Event("gameEnded", room_id, <<winner_color(st, room_id, player_id), "disconnect">>)

\* leaveRoom from room_manager.remove_player(...) to its return: the store it
\* leaves and the events it broadcasts
leaveRoomRest(st, roomId, playerId) ==
    [st |-> remove_player(st, roomId, playerId, now),
     emitted |-> IF remove_player_room(st, roomId, playerId)
                 THEN <<Event("playerLeft", roomId, <<playerId>>)>>
                 ELSE << >>]

\* async def leaveRoom(sid, data), its awaits completing without a switch of task
leaveRoom(sid, roomId, playerId) ==
    /\ Ask("leaveRoom", roomId, playerId)
    /\ ~Closing(sid)
    /\ LET st   == get_room(St, roomId, now)
           lost == Forfeits(st, roomId, playerId)
           rest == leaveRoomRest(IF lost THEN forfeit(st, roomId, playerId) ELSE st,
                                 roomId, playerId)
       IN  /\ Commit(rest.st)
           /\ Emit("leaveRoom",
                   (IF lost THEN <<forfeitEvent(st, roomId, playerId)>> ELSE << >>)
                   \o rest.emitted)
    /\ Reply("leaveRoom", "success")
    /\ UNCHANGED <<settings, watch, latest, sid_map, pending, janitor, now, ticks>>

\* async def leaveRoom(sid, data), suspended at the await of the gameEnded emit
leaveRoomSuspend(sid, roomId, playerId) ==
    /\ Ask("leaveRoom", roomId, playerId)
    /\ ~Closing(sid)
    /\ LET st == get_room(St, roomId, now)
           c  == Continuation("leaveRoom", None, roomId, playerId)
       IN  /\ Forfeits(st, roomId, playerId)
           /\ CanSuspend(c)
           /\ pending' = pending \cup {c}
           /\ Commit(forfeit(st, roomId, playerId))
           /\ Emit("leaveRoom", <<forfeitEvent(st, roomId, playerId)>>)
    /\ Reply("leaveRoom", None)
    /\ UNCHANGED <<settings, watch, latest, sid_map, janitor, now, ticks>>

\* leaveRoom resumed after the gameEnded emit
leaveRoomResume(c) ==
    /\ Ask("leaveRoom", c.room, c.player)
    /\ c \in pending /\ c.op = "leaveRoom"
    /\ LET rest == leaveRoomRest(St, c.room, c.player) IN
       /\ Commit(rest.st)
       /\ Emit("leaveRoom", rest.emitted)
    /\ pending' = pending \ {c}
    /\ Reply("leaveRoom", "success")
    /\ UNCHANGED <<settings, watch, latest, sid_map, janitor, now, ticks>>

\* disconnect from room_manager.handle_disconnect(player_id) to its end
disconnectRest(st, sid, player_id) ==
    /\ Commit(handle_disconnect(st, player_id, now))
    /\ sid_map' = DictPop(sid_map, sid)

\* async def disconnect(sid, reason), its await completing without a switch of task
disconnect(sid) ==
    /\ Ask("disconnect", IF sid \in DOMAIN sid_map THEN sid_map[sid][1] ELSE None,
           IF sid \in DOMAIN sid_map THEN sid_map[sid][2] ELSE None)
    /\ ~Closing(sid)
    /\ sid \in DOMAIN sid_map
    /\ LET room_id   == sid_map[sid][1]
           player_id == sid_map[sid][2]
           st        == get_room(St, room_id, now)
           lost      == Forfeits(st, room_id, player_id)
       IN  /\ disconnectRest(IF lost THEN forfeit(st, room_id, player_id) ELSE st,
                             sid, player_id)
           /\ Emit("disconnect",
                   IF lost THEN <<forfeitEvent(st, room_id, player_id)>> ELSE << >>)
    /\ Reply("disconnect", None)
    /\ UNCHANGED <<settings, watch, latest, pending, janitor, now, ticks>>

\* async def disconnect(sid, reason), suspended at the await of the gameEnded emit
disconnectSuspend(sid) ==
    /\ Ask("disconnect", IF sid \in DOMAIN sid_map THEN sid_map[sid][1] ELSE None,
           IF sid \in DOMAIN sid_map THEN sid_map[sid][2] ELSE None)
    /\ ~Closing(sid)
    /\ sid \in DOMAIN sid_map
    /\ LET room_id   == sid_map[sid][1]
           player_id == sid_map[sid][2]
           st        == get_room(St, room_id, now)
           c         == Continuation("disconnect", sid, room_id, player_id)
       IN  /\ Forfeits(st, room_id, player_id)
           /\ CanSuspend(c)
           /\ pending' = pending \cup {c}
           /\ Commit(forfeit(st, room_id, player_id))
           /\ Emit("disconnect", <<forfeitEvent(st, room_id, player_id)>>)
    /\ Reply("disconnect", None)
    /\ UNCHANGED <<settings, watch, latest, sid_map, janitor, now, ticks>>

\* disconnect resumed after the gameEnded emit
disconnectResume(c) ==
    /\ Ask("disconnect", c.room, c.player)
    /\ c \in pending /\ c.op = "disconnect"
    /\ disconnectRest(St, c.sid, c.player)
    /\ Emit("disconnect", << >>)
    /\ pending' = pending \ {c}
    /\ Reply("disconnect", None)
    /\ UNCHANGED <<settings, watch, latest, janitor, now, ticks>>

\* One round of cleanup_task: the sleep is over and cleanup_inactive_rooms runs.
\* An exception it raises ends the task.
cleanup_task ==
    /\ Ask("cleanup_task", None, None)
    /\ janitor = "running"
    /\ LET res == cleanup_inactive_rooms(St, now) IN
       /\ Commit(res.st)
       /\ janitor' = IF res.raised THEN "crashed" ELSE "running"
    /\ Emit("cleanup_task", << >>)
    /\ Reply("cleanup_task", None)
    /\ UNCHANGED <<settings, watch, latest, sid_map, pending, now, ticks>>

\* Time passes
Tick(d) ==
    /\ ticks < MaxTicks
    /\ now' = now + d
    /\ ticks' = ticks + 1
    /\ UNCHANGED <<settings, watch, latest, rooms, room_keys, player_to_room, sid_map,
                   pending, janitor, request, emitted, reply>>

\* The requests clients send, with their fields drawn from the given sets:
\* S connections, R the room codes createRoom may draw and leaveRoom may name,
\* G the room codes the other requests name, P player ids, N names, B boards,
\* W winners
Requests(S, R, G, P, N, B, W) ==
    \/ \E sid \in S, p \in P, n \in N, code \in R : createRoom(sid, p, n, code)
    \/ \E sid \in S, r \in G, p \in P, n \in N : joinRoom(sid, r, p, n)
    \/ \E sid \in S, r \in G, p \in P, b \in BOOLEAN : playerReady(sid, r, p, b)
    \/ \E sid \in S, r \in G, p \in P, b \in B, t \in PieceColor :
          makeMove(sid, r, p, b, t)
    \/ \E sid \in S, r \in G, w \in W : gameOver(sid, r, w, "win")
    \/ \E sid \in S, r \in R, p \in P : leaveRoom(sid, r, p)
    \/ \E sid \in S : disconnect(sid)

\* The same handlers switching task at the await after which they still act
\* on the store, and resuming later
Suspensions(S, R, G, P) ==
    \/ \E sid \in S, r \in G, p \in P, b \in BOOLEAN : playerReadySuspend(sid, r, p, b)
    \/ \E sid \in S, r \in R, p \in P : leaveRoomSuspend(sid, r, p)
    \/ \E sid \in S : disconnectSuspend(sid)
    \/ \E c \in pending : playerReadyResume(c)
    \/ \E c \in pending : leaveRoomResume(c)
    \/ \E c \in pending : disconnectResume(c)

\* ---------------------------------------------------------- specifications
\* One room (MAX_ROOMS = 1), three players, two boards; outputs recorded.
Init == InitWith(1, {"makeMove"})

Next ==
    \/ Requests(Sids, {"r1"}, {"r1"}, {"p1", "p2", "p3"}, {"n1"}, {"b1", "b2"},
                {None, LIGHT})
    \/ Suspensions(Sids, {"r1"}, {"r1"}, {"p1", "p2", "p3"})
    \/ cleanup_task

Spec == Init /\ [][Next]_vars

\* One room, three players, with the clock and the sweep acting on it.
InitJanitor == InitWith(1, {})

NextJanitor ==
    \/ Requests(Sids, {"r1"}, {"r1"}, {"p1", "p2", "p3"}, {"n1"}, {"b1"}, {None})
    \/ Suspensions(Sids, {"r1"}, {"r1"}, {"p1", "p2", "p3"})
    \/ cleanup_task
    \/ \E d \in {61, 7201} : Tick(d)

SpecJanitor == InitJanitor /\ [][NextJanitor]_vars

\* One room, two players who change their names.
InitNames == InitWith(1, {"joinRoom"})

NextNames ==
    \/ Requests(Sids, {"r1"}, {"r1"}, {"p1", "p2"}, {"n1", "n2"}, {"b1"},
                {None, LIGHT})
    \/ Suspensions(Sids, {"r1"}, {"r1"}, {"p1", "p2"})
    \/ cleanup_task

SpecNames == InitNames /\ [][NextNames]_vars

\* Two rooms (MAX_ROOMS = 2), two players; the second room is only created and
\* left, and no handler switches task at an await.
InitTwoRooms == InitWith(2, {"disconnect"})

NextTwoRooms ==
    \/ Requests(Sids, {"r1", "r2"}, {"r1"}, {"p1", "p2"}, {"n1"}, {"b1"}, {None})
    \/ cleanup_task

SpecTwoRooms == InitTwoRooms /\ [][NextTwoRooms]_vars

\* Two rooms, two players who only create, join, leave and drop their
\* connection, with the clock and the sweep acting on the rooms; the outputs of
\* createRoom recorded.
InitSweep == InitWith(2, {"createRoom"})

NextSweep ==
    \/ \E sid \in Sids, p \in {"p1", "p2"}, code \in {"r1", "r2"} :
          createRoom(sid, p, "n1", code)
    \/ \E sid \in Sids, p \in {"p1", "p2"} : joinRoom(sid, "r1", p, "n1")
    \/ \E sid \in Sids, r \in {"r1", "r2"}, p \in {"p1", "p2"} : leaveRoom(sid, r, p)
    \/ \E sid \in Sids : disconnect(sid)
    \/ cleanup_task
    \/ \E d \in {61, 7201} : Tick(d)

SpecSweep == InitSweep /\ [][NextSweep]_vars

\* One room, three players; the outputs of createRoom and joinRoom recorded, and
\* no handler switches task at an await.
InitJoin == InitWith(1, {"createRoom", "joinRoom"})

NextJoin ==
    \/ Requests(Sids, {"r1"}, {"r1"}, {"p1", "p2", "p3"}, {"n1"}, {"b1"}, {None})
    \/ cleanup_task

SpecJoin == InitJoin /\ [][NextJoin]_vars

\* Two rooms whose players create, leave and drop their connection while two
\* hours pass, no output recorded; the event loop runs cleanup_task again
\* whenever its sleep is over, so a sweep that would change the store is not
\* postponed forever.
InitSweepFair == InitWith(2, {})

NextSweepFair ==
    \/ \E sid \in Sids, p \in {"p1", "p2"}, code \in {"r1", "r2"} :
          createRoom(sid, p, "n1", code)
    \/ \E sid \in Sids, r \in {"r1", "r2"} : leaveRoom(sid, r, "p1")
    \/ \E sid \in Sids : disconnect(sid)
    \/ cleanup_task
    \/ Tick(7201)

SpecSweepFair == InitSweepFair /\ [][NextSweepFair]_vars /\ WF_vars(cleanup_task)

\* One room, two players on two connections; the outputs of disconnect and
\* the players' latest connections recorded, and no handler switches task at
\* an await.
InitReconnect == InitWith(1, {"disconnect"})

NextReconnect ==
    \/ Requests({"s1", "s2"}, {"r1"}, {"r1"}, {"p1", "p2"}, {"n1"}, {"b1"}, {None})
    \/ cleanup_task

SpecReconnect == InitReconnect /\ [][NextReconnect]_vars

\* One room, two players; the outputs of playerReady and leaveRoom recorded,
\* with the handlers switching task at their awaits.
InitReady == InitWith(1, {"playerReady", "leaveRoom"})

NextReady ==
    \/ Requests(Sids, {"r1"}, {"r1"}, {"p1", "p2"}, {"n1"}, {"b1"}, {None})
    \/ Suspensions(Sids, {"r1"}, {"r1"}, {"p1", "p2"})
    \/ cleanup_task

SpecReady == InitReady /\ [][NextReady]_vars

\* ------------------------------------------------------------------ claims
\* player p holds a seat of the live room r
Seated(r, p) == r \in DOMAIN rooms /\ FindPlayer(rooms[r].players, p) # 0

\* the seat of player p in room r (when Seated(r, p))
Seat(r, p) == rooms[r].players[FindPlayer(rooms[r].players, p)]

\* the names of the events the last step broadcast
EmittedNames == {emitted[i].name : i \in 1..Len(emitted)}

\* player p holds a seat of room r in the room map rms
SeatedIn(rms, r, p) == r \in DOMAIN rms /\ FindPlayer(rms[r].players, p) # 0

\* that seat
SeatIn(rms, r, p) == rms[r].players[FindPlayer(rms[r].players, p)]

\* C1: the reverse index agrees with the forward map: player_to_room[p] = r
\* if and only if room r is live and p is seated in r.
C1_IndexConsistent ==
    \A p \in Players, r \in RoomIds :
        (p \in DOMAIN player_to_room /\ player_to_room[p] = r) <=> Seated(r, p)

\* C2: in every step a room that is Playing does not become Waiting, and a
\* room that is Finished becomes neither Playing nor Waiting.
C2_StatusForward ==
    [][\A r \in (DOMAIN rooms) \cap (DOMAIN rooms') :
          /\ rooms[r].status = PLAYING => rooms'[r].status # WAITING
          /\ rooms[r].status = FINISHED => rooms'[r].status = FINISHED]_vars

\* C3: no player identifier is seated in more than one live room.
C3_OneRoomPerPlayer ==
    \A p \in Players : Cardinality({r \in DOMAIN rooms : Seated(r, p)}) <= 1

\* C4: the two seated players of a room have different colors.
C4_DistinctColors ==
    \A r \in DOMAIN rooms :
        Len(rooms[r].players) = 2 =>
            rooms[r].players[1].color # rooms[r].players[2].color

\* C5: a makeMove request on a live room that is not Playing is refused: a
\* failure reply, no moveMade broadcast, board and currentTurn unchanged.
C5_MoveNeedsPlaying ==
    [][request'.op = "makeMove" =>
          LET r == request'.room
              p == request'.player
          IN  \A sid \in Sids, b \in Boards, t \in PieceColor :
                 (/\ r \in DOMAIN rooms
                  /\ rooms[r].status # PLAYING
                  /\ makeMove(sid, r, p, b, t))
                 => /\ reply' # "success"
                    /\ "moveMade" \notin EmittedNames'
                    /\ rooms'[r].board = rooms[r].board
                    /\ rooms'[r].currentTurn = rooms[r].currentTurn]_vars

\* C6: a makeMove request on a live room by a player who is not seated in it, or
\* whose color is not the room's currentTurn, is answered "Not your turn": no
\* moveMade is broadcast and board, currentTurn and status stay as they were.
C6_NotYourTurn ==
    [][request'.op = "makeMove" =>
          LET r == request'.room
              p == request'.player
          IN  (/\ r \in DOMAIN rooms
               /\ (~Seated(r, p) \/ Seat(r, p).color # rooms[r].currentTurn)
               /\ \E sid \in Sids, b \in Boards, t \in PieceColor :
                     makeMove(sid, r, p, b, t))
              => /\ reply' = "Not your turn"
                 /\ "moveMade" \notin EmittedNames'
                 /\ rooms'[r].board = rooms[r].board
                 /\ rooms'[r].currentTurn = rooms[r].currentTurn
                 /\ rooms'[r].status = rooms[r].status]_vars

\* C6 witness: a move was refused in a Playing room that already has a board
C6_Witness ==
    /\ request.op = "makeMove"
    /\ reply = "Not your turn"
    /\ \E r \in DOMAIN rooms : rooms[r].status = PLAYING /\ rooms[r].board # None

\* C7: currentTurn and board of a room change only in a makeMove step whose
\* player is seated with the color of currentTurn while the room is Playing.
C7_TurnChangesOnlyByMove ==
    [][\A r \in (DOMAIN rooms) \cap (DOMAIN rooms') :
          (\/ rooms'[r].currentTurn # rooms[r].currentTurn
           \/ rooms'[r].board # rooms[r].board)
          => \E sid \in Sids, p \in Players, b \in Boards, t \in PieceColor :
                /\ makeMove(sid, r, p, b, t)
                /\ Seated(r, p)
                /\ Seat(r, p).color = rooms[r].currentTurn
                /\ rooms[r].status = PLAYING]_vars

\* C7 witness: an accepted move has replaced the board and passed the turn
C7_Witness ==
    /\ request.op = "makeMove"
    /\ reply = "success"
    /\ "moveMade" \in EmittedNames
    /\ \E r \in DOMAIN rooms : rooms[r].board = "b2" /\ rooms[r].currentTurn = DARK

\* C8: every live room holds at least 1 and at most 2 seated players.
C8_SeatCount ==
    \A r \in DOMAIN rooms : Len(rooms[r].players) \in {1, 2}

\* C8 witness: a sweep has removed the last seat of a room (which ended the
\* task), and a room holds two seats
C8_Witness ==
    /\ janitor = "crashed"
    /\ \E r \in DOMAIN rooms : Len(rooms[r].players) = 2

\* C9: joinRoom by a player already seated in the room is a reconnection in any
\* status: seats, colors, isReady, status and winner stay, the seat becomes
\* connected with disconnectedAt cleared and the supplied name; and after any
\* successful joinRoom a second one with the same arguments changes no seat.
C9_Reconnection ==
    [][request'.op = "joinRoom" =>
          LET r == request'.room
              p == request'.player
          IN  \A sid \in Sids, n \in Names :
                 /\ (Seated(r, p) /\ joinRoom(sid, r, p, n))
                    => /\ reply' = "success"
                       /\ Len(rooms'[r].players) = Len(rooms[r].players)
                       /\ \A i \in 1..Len(rooms[r].players) :
                             /\ rooms'[r].players[i].id = rooms[r].players[i].id
                             /\ rooms'[r].players[i].color = rooms[r].players[i].color
                             /\ rooms'[r].players[i].isReady = rooms[r].players[i].isReady
                             /\ rooms[r].players[i].id # p
                                   => rooms'[r].players[i] = rooms[r].players[i]
                       /\ rooms'[r].status = rooms[r].status
                       /\ rooms'[r].winner = rooms[r].winner
                       /\ SeatIn(rooms', r, p).isConnected
                       /\ SeatIn(rooms', r, p).disconnectedAt = NoTime
                       /\ SeatIn(rooms', r, p).name = n
                 /\ (joinRoom(sid, r, p, n) /\ reply' = "success")
                    => LET once == Store(rooms', room_keys', player_to_room') IN
                       /\ join_room_error(once, r, p) = "ok"
                       /\ join_room(once, r, p, n, now).rooms[r].players
                             = rooms'[r].players]_vars

\* C9 witness: a seated player has rejoined a Finished room under a new name
C9_Witness ==
    /\ request.op = "joinRoom"
    /\ reply = "success"
    /\ request.room \in DOMAIN rooms
    /\ rooms[request.room].status = FINISHED
    /\ Seat(request.room, request.player).name = "n2"

\* C10: a disconnect of a connection bound to (room, player), the room Playing
\* and the player seated: the room is Finished with the opponent's color as
\* winner, gameEnded (reason disconnect) is broadcast, and the seat stays, marked
\* disconnected at this time; seat count and reverse index unchanged.
C10_DisconnectForfeits ==
    [][request'.op = "disconnect" =>
          LET r == request'.room
              p == request'.player
          IN  \A sid \in Sids :
                 (/\ Forfeits(St, r, p)
                  /\ disconnect(sid))
                 => LET w == Opposite(Seat(r, p).color) IN
                    /\ r \in DOMAIN rooms'
                    /\ rooms'[r].status = FINISHED
                    /\ rooms'[r].winner = w
                    /\ emitted' = <<Event("gameEnded", r, <<w, "disconnect">>)>>
                    /\ Len(rooms'[r].players) = Len(rooms[r].players)
                    /\ SeatedIn(rooms', r, p)
                    /\ ~SeatIn(rooms', r, p).isConnected
                    /\ SeatIn(rooms', r, p).disconnectedAt = now
                    /\ player_to_room' = player_to_room]_vars

\* the room was idle at time t: lastActivityAt older than the idle threshold
Idle(room, t) == t - room.lastActivityAt > INACTIVE_ROOM_TIMEOUT_SECONDS

\* C11: after a sweep every room that was idle when the sweep started is gone
\* from the store, and no player who was seated in it is still indexed to it.
C11_IdleRoomsRemoved ==
    [][cleanup_task =>
          \A r \in DOMAIN rooms :
             Idle(rooms[r], now) =>
                /\ r \notin DOMAIN rooms'
                /\ \A i \in 1..Len(rooms[r].players) :
                      LET p == rooms[r].players[i].id
                      IN  ~(p \in DOMAIN player_to_room' /\ player_to_room'[p] = r)]_vars

\* C12: in a room that is not idle a sweep removes exactly the seats that are
\* disconnected for longer than the grace period: the seats it leaves are the
\* others, unchanged and in order (a room left without seats is gone).
C12_SweepRemovesStaleSeats ==
    [][cleanup_task =>
          \A r \in DOMAIN rooms :
             ~Idle(rooms[r], now) =>
                LET Stays(p) == ~StalePlayer(p, now)
                    kept     == SelectSeq(rooms[r].players, Stays)
                IN  IF kept = << >>
                    THEN r \notin DOMAIN rooms'
                    ELSE r \in DOMAIN rooms' /\ rooms'[r].players = kept]_vars

\* C13: can_start_game(room) is true if and only if the room is live, has
\* exactly two seats of distinct colors, and both seats are ready.
C13_CanStart ==
    \A r \in RoomIds :
        can_start_game(St, r) <=>
            /\ r \in DOMAIN rooms
            /\ Len(rooms[r].players) = 2
            /\ rooms[r].players[1].color # rooms[r].players[2].color
            /\ rooms[r].players[1].isReady
            /\ rooms[r].players[2].isReady

\* C14: joinRoom by a player not seated in the target room fails, store and
\* reverse index unchanged, with room-not-found if the room is not live, else
\* game-ended if it is Finished, else already-started if it is Playing, else
\* room-full if it has two seats; it succeeds only on a Waiting room with one
\* seat.
C14_JoinErrors ==
    [][request'.op = "joinRoom" =>
          LET r == request'.room
              p == request'.player
          IN  (/\ ~Seated(r, p)
               /\ \E sid \in Sids, n \in Names : joinRoom(sid, r, p, n))
              => LET failed(msg) == /\ reply' = msg
                                    /\ UNCHANGED <<rooms, room_keys, player_to_room>>
                 IN  IF r \notin DOMAIN rooms THEN failed("Room not found")
                     ELSE IF rooms[r].status = FINISHED THEN failed("Game has ended")
                     ELSE IF rooms[r].status = PLAYING THEN failed("Game already started")
                     ELSE IF Len(rooms[r].players) = 2 THEN failed("Room is full")
                     ELSE /\ reply' = "success"
                          /\ rooms[r].status = WAITING
                          /\ Len(rooms[r].players) = 1
                          /\ SeatedIn(rooms', r, p)]_vars

\* C14 witness: a third player was refused by a Waiting room with two seats
C14_Witness ==
    /\ request.op = "joinRoom"
    /\ reply = "Room is full"
    /\ rooms[request.room].status = WAITING
    /\ Len(rooms[request.room].players) = 2

\* C15: createRoom fails, the store unchanged, when the live rooms already
\* number the configured maximum, so they never exceed it; on success it adds
\* exactly one room, under an id naming no live room and leaving the others as
\* they were: Waiting, light to move, the creator its only seat, light.
C15_CreateRoom ==
    [][request'.op = "createRoom" =>
          LET p == request'.player IN
          \A sid \in Sids, n \in Names, code \in RoomIds :
             createRoom(sid, p, n, code) =>
                /\ Cardinality(DOMAIN rooms') <= settings.MAX_ROOMS
                /\ IF Cardinality(DOMAIN rooms) >= settings.MAX_ROOMS
                   THEN /\ reply' = "Maximum room limit reached"
                        /\ UNCHANGED <<rooms, room_keys, player_to_room>>
                   ELSE /\ reply' = "success"
                        /\ code \notin DOMAIN rooms
                        /\ DOMAIN rooms' = DOMAIN rooms \cup {code}
                        /\ \A r \in DOMAIN rooms : rooms'[r] = rooms[r]
                        /\ rooms'[code].status = WAITING
                        /\ rooms'[code].currentTurn = LIGHT
                        /\ Len(rooms'[code].players) = 1
                        /\ rooms'[code].players[1].id = p
                        /\ rooms'[code].players[1].color = LIGHT
                        /\ player_to_room'[p] = code]_vars

\* C15 witness: createRoom was refused with two rooms live, the maximum
C15_Witness ==
    /\ request.op = "createRoom"
    /\ reply = "Maximum room limit reached"
    /\ Cardinality(DOMAIN rooms) = 2
    /\ settings.MAX_ROOMS = 2

\* C16: a room carries a winner only if its status is Finished.
C16_WinnerOnlyIfFinished ==
    \A r \in DOMAIN rooms : rooms[r].winner # None => rooms[r].status = FINISHED

\* C17: every sweep runs to completion, and the value cleanup_inactive_rooms
\* returns is the number of rooms live before the sweep minus the number live
\* after it.
C17_SweepReturnsCount ==
    [][cleanup_task =>
          LET res == cleanup_inactive_rooms(St, now) IN
          /\ ~res.raised
          /\ res.returned = Cardinality(DOMAIN rooms) - Cardinality(DOMAIN rooms')]_vars

\* C18: the sweep keeps recurring, so a room that is idle beyond the threshold
\* is eventually removed (or used again), whatever earlier sweeps met.
C18_IdleRoomEventuallyRemoved ==
    \A r \in RoomIds :
        (r \in DOMAIN rooms /\ Idle(rooms[r], now))
            ~> (r \notin DOMAIN rooms \/ ~Idle(rooms[r], now))

\* C19: a transport disconnect of a connection bound to (room, player), when the
\* player has since joined the room again on another connection that is still
\* open, leaves the seat connected and the room's status and winner unchanged.
C19_StaleDisconnect ==
    [][request'.op = "disconnect" =>
          LET r == request'.room
              p == request'.player
          IN  \A sid \in DOMAIN sid_map :
                 (/\ sid_map[sid] = <<r, p>>
                  /\ p \in DOMAIN latest
                  /\ latest[p] # sid
                  /\ latest[p] \in DOMAIN sid_map
                  /\ sid_map[latest[p]] = <<r, p>>
                  /\ Seated(r, p)
                  /\ Seat(r, p).isConnected
                  /\ disconnect(sid))
                 => /\ SeatedIn(rooms', r, p)
                    /\ SeatIn(rooms', r, p).isConnected
                    /\ rooms'[r].status = rooms[r].status
                    /\ rooms'[r].winner = rooms[r].winner]_vars

\* C20: a successful joinRoom broadcasts playerJoined when the player was not
\* seated in the room before the call, and playerReconnected when it was.
C20_JoinedOrReconnected ==
    [][(request'.op = "joinRoom" /\ reply' = "success") =>
          LET r == request'.room
              p == request'.player
          IN  (\E sid \in Sids, n \in Names : joinRoom(sid, r, p, n))
              => EmittedNames' = IF Seated(r, p) THEN {"playerReconnected"}
                                                 ELSE {"playerJoined"}]_vars

\* C21: gameStart is broadcast for a room only by the playerReady request that
\* moves the room from Waiting to Playing: a step that broadcasts gameStart is
\* a playerReady step on a room that was Waiting before it and is Playing after
\* it (so a playerReady on a Playing or Finished room broadcasts no gameStart).
C21_GameStartOnce ==
    [][("gameStart" \in EmittedNames') =>
          /\ request'.op = "playerReady"
          /\ request'.room \in DOMAIN rooms
          /\ rooms[request'.room].status = WAITING
          /\ request'.room \in DOMAIN rooms'
          /\ rooms'[request'.room].status = PLAYING]_vars

\* the colors of the seats of room r other than player p's: the opponent's color
OpponentColors(r, p) ==
    {rooms[r].players[i].color :
        i \in {j \in 1..Len(rooms[r].players) : rooms[r].players[j].id # p}}

\* C22: a leaveRoom request by a player seated in a Playing room first sets the
\* room to Finished with the opponent's color as winner and broadcasts
\* gameEnded with that winner, while the seat is still there; playerLeft with
\* the leaver's id follows if and only if the room exists after the removal, and
\* when the leaver held the last seat the room is deleted and no playerLeft is
\* sent.
C22_LeaveRoomOrder ==
    [][(/\ request'.op = "leaveRoom"
        /\ pending \subseteq pending'
        /\ Seated(request'.room, request'.player)
        /\ rooms[request'.room].status = PLAYING) =>
          LET r    == request'.room
              p    == request'.player
              left == Event("playerLeft", r, <<p>>)
          IN  /\ Len(emitted') >= 1
              /\ emitted'[1].name = "gameEnded"
              /\ \A c \in OpponentColors(r, p) : emitted'[1].data[1] = c
              /\ IF pending' # pending
                 THEN /\ Len(emitted') = 1
                      /\ SeatedIn(rooms', r, p)
                      /\ rooms'[r].status = FINISHED
                      /\ \A c \in OpponentColors(r, p) : rooms'[r].winner = c
                 ELSE /\ ~SeatedIn(rooms', r, p)
                      /\ IF r \in DOMAIN rooms'
                         THEN /\ emitted' = <<emitted'[1], left>>
                              /\ rooms'[r].status = FINISHED
                              /\ \A c \in OpponentColors(r, p) : rooms'[r].winner = c
                         ELSE Len(emitted') = 1
                      /\ (Len(rooms[r].players) = 1) => r \notin DOMAIN rooms']_vars

====
